---------------------------- MODULE Spec2Model ----------------------------
(***************************************************************************)
(* TensorView<T> (src/include/impl/TensorView.h): a zero-copy view made of *)
(* a raw pointer data_, a size_t length_ and a type-erased                 *)
(* std::shared_ptr<void> owner_ that keeps the backing storage alive.      *)
(*                                                                         *)
(* The model has one backing buffer, created by the native side with       *)
(* std::make_shared (one native holder, use count 1), and NumViews view    *)
(* slots.  Each member function of the class is an action; the implicit    *)
(* copy constructor and destructor of the class are actions too, with the  *)
(* reference counting std::shared_ptr does for the owner_ member.          *)
(*                                                                         *)
(* Spec is the whole program.  SpecAccess and SpecOwn are two harnesses    *)
(* over the same actions: SpecAccess drives one view with every index and  *)
(* value, SpecOwn drives every view slot through construction, copy and    *)
(* destruction and accesses the first element only.                        *)
(*                                                                         *)
(* Integer widths are scaled down: int has IntBits bits (two's complement) *)
(* and size_t has SizeBits bits, SizeBits > IntBits as on LP64.            *)
(*                                                                         *)
(* Dereferencing a null pointer or a pointer into freed storage is         *)
(* undefined behaviour: the outcome is a nondeterministic choice (a fault, *)
(* or a return with an arbitrary value) and the run ends there (ub).       *)
(***************************************************************************)
EXTENDS Integers, FiniteSets, TLC

\* ------------------------------------------------------------------ bounds
IntBits == 3        \* width of int (scaled down from 32)
SizeBits == 4       \* width of size_t (scaled down from 64)
MaxIdx == 2         \* largest index passed to get/set
MaxVal == 1         \* element values are 0..MaxVal
NumViews == 2       \* view slots

\* ------------------------------------------------------------- value sets
Pow2(n) == 2 ^ n
IntMin == -Pow2(IntBits - 1)
IntMax == Pow2(IntBits - 1) - 1
SizeMax == Pow2(SizeBits) - 1
Values == 0 .. MaxVal
ViewIds == 1 .. NumViews
\* the int arguments tried: negative, zero and positive ones, all of them int
Indices == { i \in (0 - 1) .. MaxIdx : i >= IntMin /\ i <= IntMax }
\* the buffer lengths tried, one of each kind of size_t value: zero, small,
\* the largest int, the first that narrows to a negative int, the first that
\* narrows to zero, one that narrows to a smaller positive int, the largest
Lens == { n \in {0, 1, MaxIdx, IntMax, IntMax + 1, Pow2(IntBits),
                 Pow2(IntBits) + 1, SizeMax} : n <= SizeMax }

NULL == "nullptr"
BASE == "buffer"
Pointers == {NULL, BASE}

OK == "ok"
IndexOutOfRange == "std::out_of_range"
Segfault == "fault"
NoPos == "none"

VARIABLES
    bufLen,         \* number of elements the backing buffer was allocated with
    buf,            \* contents of the backing buffer, position -> value
    freed,          \* the backing storage has been released
    useCount,       \* use count of the shared_ptr control block of the buffer
    nativeHolders,  \* native shared_ptr instances that own the buffer
    kind,           \* per slot: "dead", or how the view was constructed
    data_,          \* per slot: T* data_
    length_,        \* per slot: size_t length_
    owner_,         \* per slot: owner_ holds a share of the buffer's owner
    ctorData,       \* history: pointer supplied when the view was constructed
    ctorLen,        \* history: length supplied when the view was constructed
    shadow,         \* history: position -> value last written (or original)
    last,           \* the most recent call and its outcome
    ub              \* undefined behaviour has been executed

vars == <<bufLen, buf, freed, useCount, nativeHolders, kind, data_, length_,
          owner_, ctorData, ctorLen, shadow, last, ub>>

heapVars == <<bufLen, buf, freed, useCount, nativeHolders>>
viewVars == <<kind, data_, length_, owner_, ctorData, ctorLen>>

live(v) == kind[v] # "dead"

\* the original contents of the backing buffer
Original(n) == [p \in 0 .. (n - 1) |-> p % (MaxVal + 1)]

Call(op, v, idx, val, status, ret, pos) ==
    [op |-> op, v |-> v, idx |-> idx, val |-> val,
     status |-> status, ret |-> ret, pos |-> pos]

\* ---------------------------------------------------------- pure functions
\* static_cast<int>(length_): the value modulo 2^IntBits, read as signed
ToInt(n) ==
    LET m == n % Pow2(IntBits)
    IN  IF m > IntMax THEN m - Pow2(IntBits) ELSE m

\* mutant: the lower bound of the check off by one
OutOfRangeFromZero(idx, len) == idx < 0 \/ idx > ToInt(len)

\* the condition of the throw in get and set
OutOfRange(idx, len) == idx < 1 \/ idx > ToInt(len)

\* mutant: the store lands one element late (idx used as the position)
StoreAtIndex(b, pos, val) ==
    IF (pos + 1) \in DOMAIN b THEN [b EXCEPT ![pos + 1] = val] ELSE b

\* mutant: the store goes to a private copy, the shared buffer is left alone
StorePrivate(b, pos, val) == b

\* data_[pos] = val on live storage
Store(b, pos, val) == [b EXCEPT ![pos] = val]

\* data_[pos] designates a live element of the backing buffer
Dereferenceable(v, pos) ==
    data_[v] = BASE /\ ~freed /\ pos \in 0 .. (bufLen - 1)

\* int length() const
length(v) == ToInt(length_[v])

\* mutant: size() narrowed like length()
sizeNarrowed(v) == ToInt(length_[v])

\* size_t size() const
size(v) == length_[v]

\* T* data() const
data(v) == data_[v]

\* bool empty() const
empty(v) == length_[v] = 0

\* bool isValid() const
isValid(v) == data_[v] # NULL

\* mutant: copying the owner takes no share
CopyOwnerNoShare(own, count) == count

\* std::shared_ptr copy constructor: a non-empty owner gains one share
CopyOwner(own, count) == IF own THEN count + 1 ELSE count

\* mutant: destroying the owner leaks its share
ReleaseOwnerLeak(own, count) == count

\* std::shared_ptr destructor: a non-empty owner gives up one share
ReleaseOwner(own, count) == IF own THEN count - 1 ELSE count

\* the outcomes get(idx) on view v can have
GetOutcomes(v, idx) ==
    IF OutOfRange(idx, length_[v])
    THEN {[status |-> IndexOutOfRange, ret |-> 0, pos |-> NoPos]}
    ELSE IF Dereferenceable(v, idx - 1)
    THEN {[status |-> OK, ret |-> buf[idx - 1], pos |-> idx - 1]}
    ELSE {[status |-> st, ret |-> junk, pos |-> idx - 1] :
             st \in {OK, Segfault}, junk \in Values}

\* the access get/set(idx) makes on view v is undefined behaviour
Undefined(v, idx) ==
    ~OutOfRange(idx, length_[v]) /\ ~Dereferenceable(v, idx - 1)

\* -------------------------------------------------------------------- Init
Init ==
    /\ bufLen \in Lens
    /\ buf = Original(bufLen)
    /\ freed = FALSE
    /\ useCount = 1
    /\ nativeHolders = 1
    /\ kind = [v \in ViewIds |-> "dead"]
    /\ data_ = [v \in ViewIds |-> NULL]
    /\ length_ = [v \in ViewIds |-> 0]
    /\ owner_ = [v \in ViewIds |-> FALSE]
    /\ ctorData = [v \in ViewIds |-> NULL]
    /\ ctorLen = [v \in ViewIds |-> 0]
    /\ shadow = Original(bufLen)
    /\ last = Call("init", 0, 0, 0, OK, 0, NoPos)
    /\ ub = FALSE

\* --------------------------------------------------- shared_ptr bookkeeping
\* the native side destroys its shared_ptr to the buffer
NativeRelease ==
    /\ ~ub
    /\ nativeHolders > 0
    /\ nativeHolders' = nativeHolders - 1
    /\ useCount' = ReleaseOwner(TRUE, useCount)
    /\ freed' = (freed \/ useCount' = 0)
    /\ last' = Call("native_release", 0, 0, 0, OK, 0, NoPos)
    /\ UNCHANGED <<bufLen, buf, viewVars, shadow, ub>>

\* ------------------------------------------------------------ constructors
\* mutant: the default constructor leaves data_ and length_ uninitialised
DefaultConstructNoInit(v) ==
    /\ ~ub
    /\ ~live(v)
    /\ kind' = [kind EXCEPT ![v] = "default"]
    /\ \E p \in Pointers : data_' = [data_ EXCEPT ![v] = p]
    /\ \E n \in Lens : length_' = [length_ EXCEPT ![v] = n]
    /\ owner_' = [owner_ EXCEPT ![v] = FALSE]
    /\ ctorData' = [ctorData EXCEPT ![v] = NULL]
    /\ ctorLen' = [ctorLen EXCEPT ![v] = 0]
    /\ last' = Call("construct_empty", v, 0, 0, OK, 0, NoPos)
    /\ UNCHANGED <<heapVars, shadow, ub>>

\* TensorView() : data_(nullptr), length_(0), owner_(nullptr)
DefaultConstruct(v) ==
    /\ ~ub
    /\ ~live(v)
    /\ kind' = [kind EXCEPT ![v] = "default"]
    /\ data_' = [data_ EXCEPT ![v] = NULL]
    /\ length_' = [length_ EXCEPT ![v] = 0]
    /\ owner_' = [owner_ EXCEPT ![v] = FALSE]
    /\ ctorData' = [ctorData EXCEPT ![v] = NULL]
    /\ ctorLen' = [ctorLen EXCEPT ![v] = 0]
    /\ last' = Call("construct_empty", v, 0, 0, OK, 0, NoPos)
    /\ UNCHANGED <<heapVars, shadow, ub>>

\* TensorView(T* data, size_t len, std::shared_ptr<void> owner = nullptr):
\* no validation; an owner can only be passed by copying a native shared_ptr
Construct(v, p, len, own) ==
    /\ ~ub
    /\ ~live(v)
    /\ own => nativeHolders > 0
    /\ kind' = [kind EXCEPT ![v] = "ctor"]
    /\ data_' = [data_ EXCEPT ![v] = p]
    /\ length_' = [length_ EXCEPT ![v] = len]
    /\ owner_' = [owner_ EXCEPT ![v] = own]
    /\ ctorData' = [ctorData EXCEPT ![v] = p]
    /\ ctorLen' = [ctorLen EXCEPT ![v] = len]
    /\ useCount' = CopyOwner(own, useCount)
    /\ last' = Call("construct", v, 0, 0, OK, 0, NoPos)
    /\ UNCHANGED <<bufLen, buf, freed, nativeHolders, shadow, ub>>

\* the implicit copy constructor: member-wise copy, owner_ gains a share
Copy(v, w) ==
    /\ ~ub
    /\ live(v)
    /\ ~live(w)
    /\ kind' = [kind EXCEPT ![w] = "copy"]
    /\ data_' = [data_ EXCEPT ![w] = data_[v]]
    /\ length_' = [length_ EXCEPT ![w] = length_[v]]
    /\ owner_' = [owner_ EXCEPT ![w] = owner_[v]]
    /\ ctorData' = [ctorData EXCEPT ![w] = data_[v]]
    /\ ctorLen' = [ctorLen EXCEPT ![w] = length_[v]]
    /\ useCount' = CopyOwner(owner_[v], useCount)
    /\ last' = Call("copy", w, 0, 0, OK, 0, NoPos)
    /\ UNCHANGED <<bufLen, buf, freed, nativeHolders, shadow, ub>>

\* the implicit destructor: owner_ releases its share, the last share frees
Destroy(v) ==
    /\ ~ub
    /\ live(v)
    /\ kind' = [kind EXCEPT ![v] = "dead"]
    /\ data_' = [data_ EXCEPT ![v] = NULL]
    /\ length_' = [length_ EXCEPT ![v] = 0]
    /\ owner_' = [owner_ EXCEPT ![v] = FALSE]
    /\ ctorData' = [ctorData EXCEPT ![v] = NULL]
    /\ ctorLen' = [ctorLen EXCEPT ![v] = 0]
    /\ useCount' = ReleaseOwner(owner_[v], useCount)
    /\ freed' = (freed \/ useCount' = 0)
    /\ last' = Call("destroy", v, 0, 0, OK, 0, NoPos)
    /\ UNCHANGED <<bufLen, buf, nativeHolders, shadow, ub>>

\* ----------------------------------------------------------- get and set
\* T get(int idx) const
Get(v, idx) ==
    /\ ~ub
    /\ live(v)
    /\ \E o \in GetOutcomes(v, idx) :
          last' = Call("get", v, idx, 0, o.status, o.ret, o.pos)
    /\ ub' = Undefined(v, idx)
    /\ UNCHANGED <<heapVars, viewVars, shadow>>

\* void set(int idx, T val)
Set(v, idx, val) ==
    /\ ~ub
    /\ live(v)
    /\ IF OutOfRange(idx, length_[v])
       THEN /\ last' = Call("set", v, idx, val, IndexOutOfRange, 0, NoPos)
            /\ UNCHANGED <<buf, shadow, ub>>
       ELSE IF Dereferenceable(v, idx - 1)
       THEN /\ buf' = Store(buf, idx - 1, val)
            /\ shadow' = [shadow EXCEPT ![idx - 1] = val]
            /\ last' = Call("set", v, idx, val, OK, 0, idx - 1)
            /\ ub' = ub
       ELSE /\ \E st \in {OK, Segfault} :
                 last' = Call("set", v, idx, val, st, 0, idx - 1)
            /\ ub' = TRUE
            /\ UNCHANGED <<buf, shadow>>
    /\ UNCHANGED <<bufLen, freed, useCount, nativeHolders, viewVars>>

\* ------------------------------------------------------------- accessors
\* a call of a const accessor: it returns ret and changes nothing
Accessor(op, v, ret) ==
    /\ ~ub
    /\ live(v)
    /\ last' = Call(op, v, 0, 0, OK, ret, NoPos)
    /\ UNCHANGED <<heapVars, viewVars, shadow, ub>>

CallLength(v) == Accessor("length", v, length(v))
CallSize(v) == Accessor("size", v, size(v))
CallData(v) == Accessor("data", v, data(v))
CallEmpty(v) == Accessor("empty", v, empty(v))
CallIsValid(v) == Accessor("isValid", v, isValid(v))

\* ---------------------------------------------------------- specifications
\* the program: every operation on every view with every input
Next ==
    \/ NativeRelease
    \/ \E v \in ViewIds : DefaultConstruct(v)
    \/ \E v \in ViewIds, p \in Pointers, own \in BOOLEAN :
          Construct(v, p, bufLen, own)
    \/ \E v \in ViewIds, w \in ViewIds : Copy(v, w)
    \/ \E v \in ViewIds : Destroy(v)
    \/ \E v \in ViewIds, idx \in Indices : Get(v, idx)
    \/ \E v \in ViewIds, idx \in Indices, val \in Values : Set(v, idx, val)
    \/ \E v \in ViewIds : CallLength(v)
    \/ \E v \in ViewIds : CallSize(v)
    \/ \E v \in ViewIds : CallData(v)
    \/ \E v \in ViewIds : CallEmpty(v)
    \/ \E v \in ViewIds : CallIsValid(v)

Spec == Init /\ [][Next]_vars

\* the view the access harness drives
FirstView == CHOOSE v \in ViewIds : \A w \in ViewIds : v <= w

\* one view, constructed either way, destroyed and constructed again, with
\* every index and value; the native side may release the buffer under it
NextAccess ==
    \/ NativeRelease
    \/ DefaultConstruct(FirstView)
    \/ \E p \in Pointers, own \in BOOLEAN : Construct(FirstView, p, bufLen, own)
    \/ Destroy(FirstView)
    \/ \E idx \in Indices : Get(FirstView, idx)
    \/ \E idx \in Indices, val \in Values : Set(FirstView, idx, val)
    \/ CallLength(FirstView)
    \/ CallSize(FirstView)
    \/ CallData(FirstView)
    \/ CallEmpty(FirstView)
    \/ CallIsValid(FirstView)

SpecAccess == Init /\ [][NextAccess]_vars

\* the first external index
FirstIndex == CHOOSE i \in Indices : i >= 1 /\ \A j \in Indices : j >= 1 => i <= j

\* every view slot, constructed, copied and destroyed in any order, with get
\* and set on the first element
NextOwn ==
    \/ NativeRelease
    \/ \E v \in ViewIds : DefaultConstruct(v)
    \/ \E v \in ViewIds, p \in Pointers, own \in BOOLEAN :
          Construct(v, p, bufLen, own)
    \/ \E v \in ViewIds, w \in ViewIds : Copy(v, w)
    \/ \E v \in ViewIds : Destroy(v)
    \/ \E v \in ViewIds : Get(v, FirstIndex)
    \/ \E v \in ViewIds, val \in Values : Set(v, FirstIndex, val)

SpecOwn == Init /\ [][NextOwn]_vars

\* two views constructed independently over the whole buffer with the same
\* owner, with every index and value
NextShare ==
    \/ NativeRelease
    \/ \E v \in ViewIds : Construct(v, BASE, bufLen, TRUE)
    \/ \E v \in ViewIds : Destroy(v)
    \/ \E v \in ViewIds, idx \in Indices : Get(v, idx)
    \/ \E v \in ViewIds, idx \in Indices, val \in Values : Set(v, idx, val)

SpecShare == Init /\ [][NextShare]_vars

\* ==================================================================== claims
AccessCalls == {"get", "set"}

\* the backing of view v is live storage of length_[v] elements
ValidBacking(v) == live(v) /\ data_[v] = BASE /\ ~freed /\ length_[v] <= bufLen

\* C1: get(i) and set(i, v) raise IndexOutOfRange if and only if i < 1 or
\* i > L, L being the length at full native width: every index in 1..L is
\* accepted and every other index is rejected.  (Stated for the views whose
\* backing is live storage of L elements.)
C1_RaisesIffOutsideNativeLength ==
    (last.op \in AccessCalls /\ ValidBacking(last.v)) =>
        ((last.status = IndexOutOfRange)
            <=> (last.idx < 1 \/ last.idx > length_[last.v]))

\* C2: for all i in 1..length, get(i) returns the value most recently written
\* to internal position i-1 (by a successful set or, if never set, the
\* original value), and set(i, v) immediately followed by get(i) returns v.
C2_GetReturnsLastWritten ==
    (last.op \in AccessCalls /\ ValidBacking(last.v)
        /\ last.idx \in 1 .. length_[last.v]) =>
        /\ last.status = OK
        /\ last.op = "get" => last.ret = shadow[last.idx - 1]
        /\ last.op = "set" =>
              \A o \in GetOutcomes(last.v, last.idx) :
                  o.status = OK /\ o.ret = last.val

\* C3: the backing buffer is never freed while a view holds a reference to
\* its owner: whatever other holders were dropped, get and set through a view
\* that holds the owner are defined and read and write the live storage.
C3_OwnerKeepsBufferAlive ==
    /\ (\E v \in ViewIds : live(v) /\ owner_[v]) => ~freed
    /\ (last.op \in AccessCalls /\ owner_[last.v] /\ data_[last.v] = BASE
            /\ last.status # IndexOutOfRange) =>
          /\ ~ub
          /\ last.status = OK
          /\ last.op = "get" => last.ret = shadow[last.pos]
          /\ last.op = "set" => buf[last.pos] = last.val

\* C3 witness: a clone that holds the owner is the only holder left (the
\* original and the native holder are gone) and a get through it has returned
C3_CloneOutlivesOriginal ==
    /\ last.op = "get" /\ last.status = OK /\ ~ub
    /\ kind[last.v] = "copy" /\ owner_[last.v]
    /\ nativeHolders = 0 /\ useCount = 1
    /\ \E v \in ViewIds : ~live(v)

\* C4: for two views over the same pointer, length and owner, a set(i, v)
\* through one that succeeds is visible through the other: get(i) on the
\* other view returns v.
C4_WriteVisibleThroughOtherView ==
    (last.op = "set" /\ last.status = OK /\ ~ub) =>
        \A w \in ViewIds \ {last.v} :
            (live(w) /\ data_[w] = data_[last.v]
                /\ length_[w] = length_[last.v]
                /\ owner_[w] /\ owner_[last.v]) =>
                GetOutcomes(w, last.idx)
                    = {[status |-> OK, ret |-> last.val, pos |-> last.idx - 1]}

\* C4 witness: a set through one of two independently constructed views over
\* the same pointer, length and owner has changed an element
C4_SetThroughOneOfTwoViews ==
    /\ last.op = "set" /\ last.status = OK /\ ~ub
    /\ last.val # Original(bufLen)[last.pos]
    /\ \E w \in ViewIds \ {last.v} :
          /\ kind[w] = "ctor" /\ kind[last.v] = "ctor"
          /\ data_[w] = data_[last.v] /\ length_[w] = length_[last.v]
          /\ owner_[w] /\ owner_[last.v]

\* C5: for every constructed view, whatever pointer and native-width length
\* it was given, is_empty() = (length() = 0) and is_valid() = (pointer is
\* not null), length() being the narrowed accessor.
C5_EmptyIffLengthZero ==
    \A v \in ViewIds : live(v) =>
        /\ empty(v) = (length(v) = 0)
        /\ isValid(v) = (ctorData[v] # NULL)

\* C6: copying a view adds exactly one share of the owner and dropping a view
\* removes exactly one, so the use count equals the number of live holders
\* (views that hold the owner, and native holders), and the storage is freed
\* exactly when the last holder has released its share.
C6_CountEqualsHolders ==
    /\ useCount
          = Cardinality({v \in ViewIds : live(v) /\ owner_[v]}) + nativeHolders
    /\ freed <=> useCount = 0

\* C6 witness: every view slot and the native side hold the owner, the last
\* of them through a copy
C6_AllSlotsShare ==
    /\ last.op = "copy"
    /\ owner_[last.v]
    /\ useCount = NumViews + 1

\* C7: the pointer and the length of a view never change after construction:
\* after any sequence of calls, data() and size() return the values supplied
\* when the view was constructed.
C7_ShapeNeverChanges ==
    /\ \A v \in ViewIds : live(v) =>
          /\ data_[v] = ctorData[v] /\ length_[v] = ctorLen[v]
          /\ data(v) = ctorData[v] /\ size(v) = ctorLen[v]
    /\ last.op = "size" => last.ret = ctorLen[last.v]
    /\ last.op = "data" => last.ret = ctorData[last.v]

\* C7 witness: size() has returned a length that does not fit an int, after a
\* set has changed the buffer
C7_SizeAfterSet ==
    /\ last.op = "size"
    /\ last.ret > IntMax
    /\ buf # Original(bufLen)

\* C8: a default-constructed view has a null pointer, length 0 and no owner:
\* data() is null, length() = 0, size() = 0, empty() is true, isValid() is
\* false, and get(i) raises IndexOutOfRange for every index i.
C8_DefaultViewIsEmpty ==
    \A v \in ViewIds : kind[v] = "default" =>
        /\ data(v) = NULL /\ length(v) = 0 /\ size(v) = 0
        /\ empty(v) /\ ~isValid(v) /\ ~owner_[v]
        /\ \A idx \in Indices : \A o \in GetOutcomes(v, idx) :
              o.status = IndexOutOfRange
        /\ (last.op = "get" /\ last.v = v) => last.status = IndexOutOfRange

\* C8 witness: get on a default-constructed view has raised for a positive
\* index
C8_GetOnDefaultView ==
    /\ last.op = "get"
    /\ kind[last.v] = "default"
    /\ last.idx >= 1
    /\ last.status = IndexOutOfRange

\* C9: every get(i) or set(i, v) that passes the bounds check touches the
\* internal position i-1, which lies in 0..size()-1 of the native-width
\* length, also for lengths that do not fit an int.
C9_AcceptedIndexInsideRegion ==
    /\ \A v \in ViewIds, idx \in Indices :
          (live(v) /\ ~OutOfRange(idx, length_[v])) =>
              (idx - 1) \in 0 .. (size(v) - 1)
    /\ (last.op \in AccessCalls /\ last.status # IndexOutOfRange) =>
          /\ last.pos = last.idx - 1
          /\ last.pos \in 0 .. (size(last.v) - 1)

\* C9 witness: an index was accepted on a view whose length does not fit an
\* int
C9_AcceptedOnHugeView ==
    /\ last.op \in AccessCalls
    /\ last.status = OK /\ ~ub
    /\ length_[last.v] > IntMax

\* C10: the contents of the buffer change only at internal position i-1 and
\* only by a set(i, v) that succeeds: every other call, and every set that
\* raises, leaves every position unchanged.
C10_OnlySetWritesOnePosition ==
    [][ /\ DOMAIN buf' = DOMAIN buf
        /\ (last'.op = "set" /\ last'.status = OK) =>
              \A p \in DOMAIN buf : p # last'.idx - 1 => buf'[p] = buf[p]
        /\ ~(last'.op = "set" /\ last'.status = OK) => buf' = buf ]_vars

\* C10 witness: a set has changed one element of a buffer of several
C10_SetChangedAnElement ==
    /\ last.op = "set" /\ last.status = OK /\ ~ub
    /\ bufLen > 1
    /\ buf[last.pos] # Original(bufLen)[last.pos]
    /\ \E p \in DOMAIN buf : p # last.pos

=============================================================================
